---------------------------- MODULE Spec2Model ----------------------------
(***************************************************************************)
(* The batch scripts of backend/scripts: the workbook importer             *)
(* (import_excel_data.py), the cleanup importer (clean_and_import_org.py), *)
(* the full repopulation (full_repopulate.py) and the bulk status updater  *)
(* (update_status.py), run one after the other against one document store  *)
(* (Spec), and two importing processes taking their store steps in any     *)
(* order against it (RaceSpec).  Cell values, names and codes are strings; *)
(* the store's collections are sequences of documents in insertion         *)
(* (natural) order.                                                        *)
(***************************************************************************)
EXTENDS Integers, Sequences, FiniteSets, TLC

(***************************************************************************)
(* Text: the string functions of Python the scripts use.                   *)
(***************************************************************************)

\* A cell the spreadsheet leaves empty: pandas reads it as NaN.
NaN == "<NaN>"

UpperChars == "ABCDEFGHIJKLMNOPQRSTUVWXYZÂÉ"
LowerChars == "abcdefghijklmnopqrstuvwxyzâé"

Ch(s, i) == SubSeq(s, i, i)

\* the lower-case letter of each upper-case letter, and the converse
ToLower == [c \in {Ch(UpperChars, k) : k \in 1..Len(UpperChars)} |->
               Ch(LowerChars, CHOOSE k \in 1..Len(UpperChars) : Ch(UpperChars, k) = c)]

ToUpper == [c \in {Ch(LowerChars, k) : k \in 1..Len(LowerChars)} |->
               Ch(UpperChars, CHOOSE k \in 1..Len(LowerChars) : Ch(LowerChars, k) = c)]

LowerCh(c) == IF c \in DOMAIN ToLower THEN ToLower[c] ELSE c

UpperCh(c) == IF c \in DOMAIN ToUpper THEN ToUpper[c] ELSE c

RECURSIVE Lower(_)
\* str.lower()
Lower(s) == IF s = "" THEN "" ELSE LowerCh(Ch(s, 1)) \o Lower(SubSeq(s, 2, Len(s)))

RECURSIVE Upper(_)
\* str.upper()
Upper(s) == IF s = "" THEN "" ELSE UpperCh(Ch(s, 1)) \o Upper(SubSeq(s, 2, Len(s)))

\* sub in s
Contains(s, sub) ==
    \E i \in 1..(Len(s) - Len(sub) + 1) : SubSeq(s, i, i + Len(sub) - 1) = sub

IsSpace(c) == c \in {" ", "\n", "\t"}

IsDigit(c) == c \in {"0", "1", "2", "3", "4", "5", "6", "7", "8", "9"}

RECURSIVE LStrip(_)
LStrip(s) ==
    IF s # "" /\ IsSpace(Ch(s, 1)) THEN LStrip(SubSeq(s, 2, Len(s))) ELSE s

RECURSIVE RStrip(_)
RStrip(s) ==
    IF s # "" /\ IsSpace(Ch(s, Len(s))) THEN RStrip(SubSeq(s, 1, Len(s) - 1)) ELSE s

\* str.strip()
Strip(s) == LStrip(RStrip(s))

\* s[:n]
Prefix(s, n) == SubSeq(s, 1, IF Len(s) < n THEN Len(s) ELSE n)

RECURSIVE RemoveSpaces(_)
\* s.replace(" ", "")
RemoveSpaces(s) ==
    IF s = "" THEN ""
    ELSE (IF Ch(s, 1) = " " THEN "" ELSE Ch(s, 1)) \o RemoveSpaces(SubSeq(s, 2, Len(s)))

RECURSIVE SplitOn(_, _, _)
\* the pieces of s between the characters of seps, the piece being read in cur
SplitOn(s, seps, cur) ==
    IF s = "" THEN <<cur>>
    ELSE IF Ch(s, 1) \in seps
         THEN <<cur>> \o SplitOn(SubSeq(s, 2, Len(s)), seps, "")
         ELSE SplitOn(SubSeq(s, 2, Len(s)), seps, cur \o Ch(s, 1))

\* re.split(r'[\n,]', s)
SplitParts(s) == SplitOn(s, {"\n", ","}, "")

\* s.split(): the whitespace-separated words of s
Words(s) == SelectSeq(SplitOn(s, {" ", "\n", "\t"}, ""), LAMBDA w : w # "")

RECURSIVE Initials(_)
\* "".join([w[0] for w in words])
Initials(ws) == IF ws = <<>> THEN "" ELSE Ch(Head(ws), 1) \o Initials(Tail(ws))

\* str(x) of a cell
Str(x) == IF x = NaN THEN "nan" ELSE x

\* clean_text
clean_text(text) == IF text = NaN THEN "" ELSE Strip(text)


(***************************************************************************)
(* The document store: a collection is a sequence of documents, a document *)
(* a function from field names to values.  ObjectIds are drawn from the    *)
(* counter next_oid.                                                       *)
(***************************************************************************)

\* Python's None: the result of find_one when nothing matches
None == [none |-> TRUE]

\* the document d satisfies the equality filter q
Matches(d, q) == \A f \in DOMAIN q : f \in DOMAIN d /\ d[f] = q[f]

\* the index of the first document of col matching q, 0 when there is none
FindIdx(col, q) ==
    LET hits == {i \in 1..Len(col) : Matches(col[i], q)}
    IN  IF hits = {} THEN 0 ELSE CHOOSE i \in hits : \A j \in hits : i <= j

\* collection.find_one(q)
find_one(col, q) == LET i == FindIdx(col, q) IN IF i = 0 THEN None ELSE col[i]

\* update_one(q, {'$set': fields}, upsert=True); oid is the _id of an inserted document
update_one_set(col, q, fields, oid) ==
    LET i == FindIdx(col, q)
    IN  IF i = 0 THEN Append(col, fields @@ q @@ [_id |-> oid])
        ELSE [col EXCEPT ![i] = fields @@ col[i]]

\* update_one(q, {'$setOnInsert': fields}, upsert=True)
update_one_set_on_insert(col, q, fields, oid) ==
    LET i == FindIdx(col, q)
    IN  IF i = 0 THEN Append(col, fields @@ q @@ [_id |-> oid]) ELSE col

\* update_one(q, {'$set': fields}) without upsert
update_one_no_upsert(col, q, fields) ==
    LET i == FindIdx(col, q)
    IN  IF i = 0 THEN col ELSE [col EXCEPT ![i] = fields @@ col[i]]

\* update_many mistaken for update_one: only the first match is updated
update_first_match(col, q, fields) ==
    LET hits == {i \in 1..Len(col) : Matches(col[i], q)}
    IN  IF hits = {} THEN col
        ELSE [col EXCEPT ![CHOOSE i \in hits : \A j \in hits : i <= j] = fields @@ @]

\* update_many(q, {'$set': fields})
update_many(col, q, fields) ==
    [i \in 1..Len(col) |-> IF Matches(col[i], q) THEN fields @@ col[i] ELSE col[i]]

\* the modified_count of update_many(q, {'$set': fields})
modified_count(col, q, fields) ==
    Cardinality({i \in 1..Len(col) : Matches(col[i], q) /\ fields @@ col[i] # col[i]})

\* the next ObjectId after an upsert into col with filter q
OidAfter(col, q, oid) == IF FindIdx(col, q) = 0 THEN oid + 1 ELSE oid


(***************************************************************************)
(* The macro extractor (import_excel_data.py, lines 80-109).               *)
(***************************************************************************)

RECURSIVE SkipSpaces(_, _)
\* the first position at or after i of s that holds no whitespace (\s*)
SkipSpaces(s, i) ==
    IF i <= Len(s) /\ IsSpace(Ch(s, i)) THEN SkipSpaces(s, i + 1) ELSE i

RECURSIVE SkipDigits(_, _)
\* the first position at or after i of s that holds no digit (\d*)
SkipDigits(s, i) ==
    IF i <= Len(s) /\ IsDigit(Ch(s, i)) THEN SkipDigits(s, i + 1) ELSE i

RECURSIVE LineEnd(_, _)
\* the position of the first newline at or after i, Len(s) + 1 when there is none (.*)
LineEnd(s, i) ==
    IF i <= Len(s) /\ Ch(s, i) # "\n" THEN LineEnd(s, i + 1) ELSE i

\* (Macro\s*\d+)\s*[:|-]\s*(.*) matches s at position i, case ignored
MacroMatchAt(s, i) ==
    /\ i + 4 <= Len(s)
    /\ Lower(SubSeq(s, i, i + 4)) = "macro"
    /\ LET d == SkipSpaces(s, i + 5)
           e == SkipDigits(s, d)
           p == SkipSpaces(s, e)
       IN  e > d /\ p <= Len(s) /\ Ch(s, p) \in {":", "|", "-"}

\* re.search of the macro pattern: the groups of the leftmost match, or None
MacroSearch(s) ==
    LET hits == {i \in 1..Len(s) : MacroMatchAt(s, i)}
    IN  IF hits = {} THEN None
        ELSE LET i == CHOOSE k \in hits : \A j \in hits : k <= j
                 e == SkipDigits(s, SkipSpaces(s, i + 5))
                 p == SkipSpaces(s, e)
                 r == SkipSpaces(s, p + 1)
             IN  [g1 |-> SubSeq(s, i, e - 1), g2 |-> SubSeq(s, r, LineEnd(s, r) - 1)]

\* the length over which a description is kept whole in short_description
ShortDescLen == 100

\* the number of characters of the sheet name kept in the fallback code
FallbackCodeLen == 10

\* macro_code and macro_name of a sheet
MacroOf(sheet) ==
    LET macro_text == clean_text(sheet.rows[1][1])
        match == MacroSearch(macro_text)
    IN  IF match # None
        THEN [code |-> RemoveSpaces(match.g1), name |-> Strip(match.g2)]
        ELSE [code |-> RemoveSpaces(Prefix(sheet.name, FallbackCodeLen)), name |-> sheet.name]

\* macro_desc of a sheet
MacroDesc(sheet) == IF Len(sheet.rows) > 3 THEN clean_text(sheet.rows[4][1]) ELSE ""

\* macro_doc
MacroDoc(sheet, created_by, now) ==
    LET m == MacroOf(sheet)
        macro_desc == MacroDesc(sheet)
    IN  [code |-> m.code,
         name |-> m.name,
         short_description |-> IF Len(macro_desc) > ShortDescLen
                               THEN Prefix(macro_desc, ShortDescLen) \o "..."
                               ELSE macro_desc,
         description |-> macro_desc,
         created_by |-> created_by,
         created_at |-> now,
         updated_at |-> now]

(***************************************************************************)
(* The header and column locator (import_excel_data.py, lines 122-160).    *)
(***************************************************************************)

\* the number of leading rows scanned for the header
ScanRows == 10

\* the row holds "process" in some cell and "tâches" in some cell
IsHeaderRow(row) ==
    /\ \E c \in 1..Len(row) : Contains(Lower(Str(row[c])), "process")
    /\ \E c \in 1..Len(row) : Contains(Lower(Str(row[c])), "tâches")

RECURSIVE ScanHeader(_, _)
\* the loop over range(10) from i (0-based): idx is the header's index, -1 when no
\* row of the ten is one; raised is "IndexError" when df.iloc[i] is read past the
\* sheet's last row
ScanHeader(rows, i) ==
    IF i >= ScanRows THEN [raised |-> "", idx |-> -1]
    ELSE IF i >= Len(rows) THEN [raised |-> "IndexError", idx |-> -1]
    ELSE IF IsHeaderRow(rows[i + 1]) THEN [raised |-> "", idx |-> i]
    ELSE ScanHeader(rows, i + 1)

\* the header length below which a "process" cell names the title column
TitleHeaderLen == 20

\* the role the column-map loop gives a header cell, "" for none
RoleOf(val) ==
    LET val_str == Strip(Lower(Str(val)))
    IN  IF Contains(val_str, "process") /\ ~Contains(val_str, "description")
           /\ Len(val_str) < TitleHeaderLen
        THEN "process_title"
        ELSE IF Contains(val_str, "description") /\ Contains(val_str, "process")
        THEN "process_desc"
        ELSE IF Contains(val_str, "tâches") THEN "tasks"
        ELSE IF Contains(val_str, "concernées") \/ Contains(val_str, "directions")
        THEN "directions"
        ELSE ""

\* the 0-based index the loop leaves for the role (the last cell of that role),
\* dflt when no cell has it
ColOf(headers, role, dflt) ==
    LET hits == {c \in 1..Len(headers) : RoleOf(headers[c]) = role}
    IN  IF hits = {} THEN dflt
        ELSE (CHOOSE c \in hits : \A j \in hits : j <= c) - 1

\* col_map of the importer, with the positional fallbacks
ColMap(headers) ==
    [process_title |-> ColOf(headers, "process_title", 1),
     process_desc  |-> ColOf(headers, "process_desc", 2),
     tasks         |-> ColOf(headers, "tasks", 3),
     directions    |-> ColOf(headers, "directions", 4)]

\* the cleaned cell of the row in the 0-based column col, "" beyond the sheet's width
CellOf(row, col) == IF col >= Len(row) THEN "" ELSE clean_text(row[col + 1])


(***************************************************************************)
(* The stakeholder / department resolver (import_excel_data.py, lines      *)
(* 213-260; clean_and_import_org.py, lines 100-142, is the same code).     *)
(* S is the store: [macros, departments, job_positions, documents,         *)
(* next_oid].                                                              *)
(***************************************************************************)

\* base_code of a department name
BaseCode(dir_name) ==
    IF Len(Words(dir_name)) > 1
    THEN Upper(Prefix(Initials(Words(dir_name)), 4))
    ELSE Upper(Prefix(dir_name, 3))

\* the probe left out: the base code is taken as it is
ProbeCodeUnprobed(depts, base_code, dir_name, candidate_code, counter) ==
    candidate_code

RECURSIVE ProbeCodeAnyHolder(_, _, _, _, _)
\* the probe without the test of the holder's name: any held code is passed over
ProbeCodeAnyHolder(depts, base_code, dir_name, candidate_code, counter) ==
    IF find_one(depts, [code |-> candidate_code]) = None
    THEN candidate_code
    ELSE ProbeCodeAnyHolder(depts, base_code, dir_name,
                            base_code \o ToString(counter), counter + 1)

RECURSIVE ProbeCode(_, _, _, _, _)
\* the while True loop: the first candidate no department of another name holds
ProbeCode(depts, base_code, dir_name, candidate_code, counter) ==
    LET existing == find_one(depts, [code |-> candidate_code])
    IN  IF existing = None \/ existing.name = dir_name
        THEN candidate_code
        ELSE ProbeCode(depts, base_code, dir_name,
                       base_code \o ToString(counter), counter + 1)

\* candidate_code of a department name against the departments collection
CandidateCode(depts, dir_name) ==
    ProbeCode(depts, BaseCode(dir_name), dir_name, BaseCode(dir_name), 1)

\* the department inserted without the match by name
InsertDepartment(depts, dir_name, candidate_code, now, oid) ==
    Append(depts, [_id |-> oid, name |-> dir_name, code |-> candidate_code,
                   active |-> TRUE, created_at |-> now, updated_at |-> now])

\* the upsert of the department of that name with the probed code
UpsertDepartment(depts, dir_name, candidate_code, now, oid) ==
    update_one_set_on_insert(depts, [name |-> dir_name],
        [code |-> candidate_code, active |-> TRUE,
         created_at |-> now, updated_at |-> now], oid)

\* the upsert of the job position of the department dept
UpsertJobPosition(jps, dir_name, dept, candidate_code, now, oid) ==
    update_one_set_on_insert(jps, [title |-> dir_name, department_id |-> dept._id],
        [code |-> candidate_code \o "-H", active |-> TRUE,
         created_at |-> now, updated_at |-> now], oid)

\* one name resolved against the store S: the store afterwards
ResolveName(S, dir_name, now) ==
    LET candidate_code == CandidateCode(S.departments, dir_name)
        depts == UpsertDepartment(S.departments, dir_name, candidate_code, now, S.next_oid)
        oid1  == OidAfter(S.departments, [name |-> dir_name], S.next_oid)
        dept  == find_one(depts, [name |-> dir_name])
        jq    == [title |-> dir_name, department_id |-> dept._id]
        jps   == UpsertJobPosition(S.job_positions, dir_name, dept, candidate_code, now, oid1)
    IN  [S EXCEPT !.departments = depts,
                  !.job_positions = jps,
                  !.next_oid = OidAfter(S.job_positions, jq, oid1)]

\* the entry the resolution of dir_name against S leaves in the log: the name, its
\* candidate_code and the (code, name) pairs the departments held when it was probed
ResolvedEntry(S, dir_name) ==
    [name |-> dir_name,
     code |-> CandidateCode(S.departments, dir_name),
     held |-> {<<S.departments[i].code, S.departments[i].name>> :
                  i \in 1..Len(S.departments)}]

RECURSIVE ResolveParts(_, _, _)
\* the loop over the parts of a directions cell: the store afterwards, the
\* stakeholders in order, and the log of the resolutions
ResolveParts(S, parts, now) ==
    IF parts = <<>> THEN [S |-> S, stakeholders |-> <<>>, resolved |-> <<>>]
    ELSE LET dir_name == Strip(Head(parts))
         IN  IF Len(dir_name) > 1
             THEN LET rest == ResolveParts(ResolveName(S, dir_name, now), Tail(parts), now)
                  IN  [S |-> rest.S,
                       stakeholders |-> <<dir_name>> \o rest.stakeholders,
                       resolved |-> <<ResolvedEntry(S, dir_name)>> \o rest.resolved]
             ELSE ResolveParts(S, Tail(parts), now)

\* the directions cell d_content resolved against S
ResolveDirections(S, d_content, now) ==
    IF d_content # "" THEN ResolveParts(S, SplitParts(d_content), now)
    ELSE [S |-> S, stakeholders |-> <<>>, resolved |-> <<>>]


(***************************************************************************)
(* The workbooks the file at EXCEL_FILE may hold.  A sheet is read with    *)
(* header=None: a grid of rows of one width, empty cells NaN.              *)
(***************************************************************************)

Hdr ==
    <<"Description Détaillée", "Process", "Description du process",
      "Identification des tâches", "Directions concernées">>

Blank == <<NaN, NaN, NaN, NaN, NaN>>

\* the layout of the real workbook: title, blank row, header, then the groups
SheetStd ==
    [name |-> "Macro 01",
     rows |-> << <<"Macro 01: Strategie", NaN, NaN, NaN, NaN>>,
                 Blank,
                 Hdr,
                 <<"Cette macro couvre", "A", "desc A", "t1",
                   "Direction Network Engineering, IT">>,
                 <<NaN, NaN, NaN, "t2", NaN>>,
                 <<NaN, "B", "desc B", NaN, "IT">>,
                 <<NaN, NaN, NaN, "t3", NaN>> >>]

\* a title that recurs after a different title
SheetABA ==
    [name |-> "Recurring titles",
     rows |-> << Hdr,
                 <<NaN, "A", NaN, "a1", "IT">>,
                 <<NaN, "B", NaN, "b1", NaN>>,
                 <<NaN, "A", NaN, "a2", NaN>> >>]

\* department names that derive the same base code
SheetCodes ==
    [name |-> "Codes",
     rows |-> << <<"Macro 02 - Codes", NaN, NaN, NaN, NaN>>,
                 Hdr,
                 <<NaN, "C", "desc C", "c1", "abcx, abcy\nabcz">>,
                 <<NaN, "D", NaN, NaN, "abcy, A B C 1, x">> >>]

\* no header row, fewer rows than the scan reads
SheetShort ==
    [name |-> "Notes",
     rows |-> << <<"Macro 03: Notes", "A", "desc", "t1", "Finance">>,
                 Blank >>]

\* no header row in the ten rows the scan reads
SheetLong ==
    [name |-> "Annexe",
     rows |-> << <<"Annexe", "A", "desc", "t1", "Finance">>,
                 Blank, Blank, Blank, Blank, Blank, Blank, Blank, Blank,
                 <<NaN, "B", NaN, "t2", "Finance">> >>]

\* four columns, and a tasks cell before any process title
SheetOrphan ==
    [name |-> "Orphan",
     rows |-> << <<"Description", "Process", "Description du process",
                   "Identification des tâches">>,
                 <<NaN, NaN, NaN, "t0">>,
                 <<NaN, "A", NaN, "t1">> >>]

Workbooks ==
    { <<SheetStd, SheetCodes>>,
      <<SheetABA>>,
      <<SheetShort, SheetStd>>,
      <<SheetLong, SheetCodes>>,
      <<SheetOrphan, SheetStd>> }

\* no file at EXCEL_FILE
Absent == [exists |-> FALSE, sheets |-> <<>>]

\* what os.path.exists(EXCEL_FILE) and pd.ExcelFile(EXCEL_FILE) may find
Files ==
    {[exists |-> TRUE, sheets |-> w] : w \in Workbooks} \cup {Absent}

\* a sheet whose continuation row names a direction: the cleanup importer resolves
\* abcz, abcy, abcx, the importer abcz and abcx only
SheetRace ==
    [name |-> "Macro 04",
     rows |-> << Hdr,
                 <<NaN, "A", NaN, "r1", "abcz">>,
                 <<NaN, NaN, NaN, "r2", "abcy">>,
                 <<NaN, "B", NaN, NaN, "abcx">> >>]

\* the workbook after an edit: one group, whose direction is abcx
SheetEdited ==
    [name |-> "Macro 04",
     rows |-> << Hdr,
                 <<NaN, "B", NaN, NaN, "abcx">> >>]

\* what pd.ExcelFile(EXCEL_FILE) may load when a process is started: the workbook
\* may be edited between the two starts
RaceFiles ==
    {[exists |-> TRUE, sheets |-> <<SheetRace>>],
     [exists |-> TRUE, sheets |-> <<SheetEdited>>]}

\* the files a process may load, in an order: a process keeps the number of the
\* one it loaded, so that the accented header texts stay out of the state
FileList ==
    << Absent,
       [exists |-> TRUE, sheets |-> <<SheetStd, SheetCodes>>],
       [exists |-> TRUE, sheets |-> <<SheetABA>>],
       [exists |-> TRUE, sheets |-> <<SheetShort, SheetStd>>],
       [exists |-> TRUE, sheets |-> <<SheetLong, SheetCodes>>],
       [exists |-> TRUE, sheets |-> <<SheetOrphan, SheetStd>>],
       [exists |-> TRUE, sheets |-> <<SheetRace>>],
       [exists |-> TRUE, sheets |-> <<SheetEdited>>] >>

FileNo(f) == CHOOSE k \in 1..Len(FileList) : FileList[k] = f

Scripts == {"import_excel_data", "full_repopulate", "clean_and_import_org", "update_status"}

\* the number of script runs of a behaviour
MaxRuns == 2

(***************************************************************************)
(* The stores a first run may find.                                        *)
(***************************************************************************)

\* a process document as an earlier import wrote it, then given the status
StoredDoc(id, macro_id, n, title, status) ==
    [_id |-> id, macro_id |-> macro_id, process_code |-> "Macro01_P" \o ToString(n),
     title |-> title, description |-> "old", stakeholders |-> <<"IT">>,
     tasks |-> <<[code |-> "Macro01_P" \o ToString(n) \o "_T1",
                  description |-> "old task", order |-> 1]>>,
     status |-> status, version |-> "1.0", is_active |-> TRUE,
     created_by |-> 1, created_at |-> 0, updated_at |-> 0,
     contributors |-> [authors |-> <<>>, verifiers |-> <<>>, validators |-> <<>>],
     metadata |-> [objectives |-> <<>>, implicated_actors |-> <<"IT">>,
                   management_rules |-> <<>>, terminology |-> <<>>,
                   change_history |-> <<>>]]

EmptyStore ==
    [users |-> <<>>, macros |-> <<>>, departments |-> <<>>, job_positions |-> <<>>,
     documents |-> <<>>, next_oid |-> 1]

\* a store in use: an admin user, one imported macro with its department, job
\* position and processes, three of them approved since (the first one carrying a
\* field the application wrote) and five still drafts
UsedStore ==
    [users |-> <<[_id |-> 1, email |-> "admin@k-j.store"]>>,
     macros |-> <<[_id |-> 2, code |-> "Macro01", name |-> "Strategie",
                   short_description |-> "", description |-> "",
                   created_by |-> 1, created_at |-> 0, updated_at |-> 0]>>,
     departments |-> <<[_id |-> 3, name |-> "IT", code |-> "IT", active |-> TRUE,
                        created_at |-> 0, updated_at |-> 0]>>,
     job_positions |-> <<[_id |-> 4, title |-> "IT", department_id |-> 3,
                          code |-> "IT-H", active |-> TRUE,
                          created_at |-> 0, updated_at |-> 0]>>,
     documents |-> << StoredDoc(5, 2, 1, "A", "approved") @@ [approved_at |-> 0],
                      StoredDoc(6, 2, 2, "P2", "approved"),
                      StoredDoc(7, 2, 3, "P3", "approved"),
                      StoredDoc(8, 2, 4, "P4", "draft"),
                      StoredDoc(9, 2, 5, "P5", "draft"),
                      StoredDoc(10, 2, 6, "P6", "draft"),
                      StoredDoc(11, 2, 7, "P7", "draft"),
                      StoredDoc(12, 2, 8, "P8", "draft") >>,
     next_oid |-> 13]

\* a store whose departments were entered by hand: the codes ABC and ABC1 are
\* held, no two departments share a code
LegacyStore ==
    [users |-> <<>>, macros |-> <<>>,
     departments |-> <<[_id |-> 1, name |-> "abcy", code |-> "ABC", active |-> TRUE,
                        created_at |-> 0, updated_at |-> 0],
                       [_id |-> 2, name |-> "Finance", code |-> "ABC1", active |-> TRUE,
                        created_at |-> 0, updated_at |-> 0]>>,
     job_positions |-> <<[_id |-> 3, title |-> "abcy", department_id |-> 1,
                          code |-> "ABC-H", active |-> TRUE,
                          created_at |-> 0, updated_at |-> 0]>>,
     documents |-> <<>>, next_oid |-> 4]

InitialStores == {EmptyStore, UsedStore, LegacyStore}


(***************************************************************************)
(* State.                                                                  *)
(***************************************************************************)

VARIABLES
    \* the store
    users, macros, departments, job_positions, documents, next_oid,
    \* the run: the script running, where it stands, the file it loaded from
    \* EXCEL_FILE (its number in FileList), the number of runs started, the time
    \* of the run, the creator identity
    script, pc, xl, runs, now, CREATED_BY_ID,
    \* the locals of import_data
    sheet_i, row_i, header_row_idx, col_map, macro_code, macro_id,
    current_process_title, current_process_doc, current_tasks,
    process_count, task_count, total_processes, total_tasks,
    \* res.modified_count of the status updater
    res_modified_count,
    \* history: the store when the run started, the store when the sheet started,
    \* the run before this one with the store it left, the resolutions of the
    \* last row handled
    run_pre, sheet_pre, prev_run, resolved,
    \* the locals of the resolver loop: the parts of the directions cell still to
    \* handle, the name in hand, its candidate code and counter, the stakeholders
    parts, dir_name, candidate_code, counter, stakeholders,
    \* the other operating-system process running a script against the same store:
    \* its script, position and locals while it is not the one taking steps
    peer,
    \* history: a script was started while another one was still running
    overlap

store == <<users, macros, departments, job_positions, documents, next_oid>>

run == <<script, pc, xl, runs, now, CREATED_BY_ID>>

\* xl = pd.ExcelFile(EXCEL_FILE), with whether the file exists
excel_file == FileList[xl]

locals ==
    <<sheet_i, row_i, header_row_idx, col_map, macro_code, macro_id,
      current_process_title, current_process_doc, current_tasks,
      process_count, task_count, total_processes, total_tasks>>

history == <<run_pre, sheet_pre, prev_run, resolved>>

resolver == <<parts, dir_name, candidate_code, counter, stakeholders>>

race == <<peer, overlap>>

vars == <<store, run, locals, res_modified_count, history, resolver, race>>

\* the store as the operators above take it
Store ==
    [macros |-> macros, departments |-> departments, job_positions |-> job_positions,
     documents |-> documents, next_oid |-> next_oid]

\* the collections a run may change
Collections ==
    [macros |-> macros, departments |-> departments, job_positions |-> job_positions,
     documents |-> documents]

\* current_process_title before the first group of a sheet
NoTitle == "<None>"

\* the identity keys of the process documents of a collection
DocKeys(docs) == {<<docs[i].title, docs[i].macro_id>> : i \in 1..Len(docs)}

\* a process that runs no script yet
NotStarted ==
    [script |-> "", pc |-> "idle", xl |-> FileNo(Absent),
     CREATED_BY_ID |-> 0,
     sheet_i |-> 0, row_i |-> 0, header_row_idx |-> -1,
     col_map |-> [process_title |-> 1, process_desc |-> 2, tasks |-> 3, directions |-> 4],
     macro_code |-> "", macro_id |-> 0,
     current_process_title |-> NoTitle, current_process_doc |-> None,
     current_tasks |-> <<>>,
     process_count |-> 0, task_count |-> 0, total_processes |-> 0, total_tasks |-> 0,
     parts |-> <<>>, dir_name |-> "", candidate_code |-> "", counter |-> 1,
     stakeholders |-> <<>>]

\* the script of a process at pc is still running
Running(at) == at \notin {"idle", "done", "crashed"}

Init ==
    /\ \E s \in InitialStores :
          /\ users = s.users
          /\ macros = s.macros
          /\ departments = s.departments
          /\ job_positions = s.job_positions
          /\ documents = s.documents
          /\ next_oid = s.next_oid
          /\ run_pre = [macros |-> s.macros, departments |-> s.departments,
                        job_positions |-> s.job_positions, documents |-> s.documents]
          /\ sheet_pre = [departments |-> s.departments,
                          job_positions |-> s.job_positions, documents |-> s.documents]
    /\ script = "" /\ pc = "idle" /\ runs = 0 /\ now = 0 /\ CREATED_BY_ID = 0
    /\ xl = FileNo(Absent)
    /\ sheet_i = 0 /\ row_i = 0 /\ header_row_idx = -1
    /\ col_map = [process_title |-> 1, process_desc |-> 2, tasks |-> 3, directions |-> 4]
    /\ macro_code = "" /\ macro_id = 0
    /\ current_process_title = NoTitle /\ current_process_doc = None
    /\ current_tasks = <<>>
    /\ process_count = 0 /\ task_count = 0 /\ total_processes = 0 /\ total_tasks = 0
    /\ res_modified_count = 0
    /\ prev_run = [script |-> "", xl |-> FileNo(Absent),
                   departments |-> <<>>, job_positions |-> <<>>, keys |-> {}]
    /\ resolved = <<>>
    /\ parts = <<>> /\ dir_name = "" /\ candidate_code = "" /\ counter = 1
    /\ stakeholders = <<>>
    /\ peer = NotStarted
    /\ overlap = FALSE

(***************************************************************************)
(* A script is started.                                                    *)
(***************************************************************************)

\* get_or_create_admin_user: the creator's id, and whether it is a fresh ObjectId
get_or_create_admin_user(us, oid) ==
    LET byMail == find_one(us, [email |-> "admin@k-j.store"])
        admin  == IF byMail # None THEN byMail
                  ELSE IF us # <<>> THEN us[1] ELSE None
    IN  IF admin # None THEN [id |-> admin._id, fresh |-> FALSE]
        ELSE [id |-> oid, fresh |-> TRUE]

\* a process is started for script s; f is what stands at EXCEL_FILE.  The module
\* of the importer resolves CREATED_BY_ID when it is loaded.
StartScript(s, f) ==
    /\ script' = s
    /\ xl' = FileNo(IF s = "update_status" THEN Absent ELSE f)
    /\ runs' = runs + 1
    /\ now' = now + 1
    /\ LET creator == get_or_create_admin_user(users, next_oid)
       IN  IF s \in {"import_excel_data", "full_repopulate"}
           THEN /\ CREATED_BY_ID' = creator.id
                /\ next_oid' = IF creator.fresh THEN next_oid + 1 ELSE next_oid
           ELSE UNCHANGED <<CREATED_BY_ID, next_oid>>
    /\ pc' = CASE s = "import_excel_data"    -> "import_data"
               [] s = "full_repopulate"      -> "full_repopulate"
               [] s = "clean_and_import_org" -> "clean_and_import"
               [] s = "update_status"        -> "update_status"
    \* a new process: import_data has no locals yet
    /\ sheet_i' = 0 /\ row_i' = 0 /\ header_row_idx' = -1
    /\ col_map' = [process_title |-> 1, process_desc |-> 2, tasks |-> 3, directions |-> 4]
    /\ macro_code' = "" /\ macro_id' = 0
    /\ current_process_title' = NoTitle /\ current_process_doc' = None
    /\ current_tasks' = <<>>
    /\ process_count' = 0 /\ task_count' = 0
    /\ total_processes' = 0 /\ total_tasks' = 0
    /\ res_modified_count' = 0
    /\ parts' = <<>> /\ dir_name' = "" /\ candidate_code' = "" /\ counter' = 1
    /\ stakeholders' = <<>>
    /\ overlap' = (overlap \/ Running(peer.pc))
    /\ UNCHANGED <<users, macros, departments, job_positions, documents, peer>>

\* the operator starts script s once the script before has ended
Launch(s, f) ==
    /\ pc \in {"idle", "done", "crashed"}
    /\ runs < MaxRuns
    /\ StartScript(s, f)
    /\ prev_run' = [script |-> script, xl |-> xl,
                    departments |-> departments, job_positions |-> job_positions,
                    keys |-> DocKeys(documents)]
    /\ run_pre' = Collections
    /\ sheet_pre' = [departments |-> departments, job_positions |-> job_positions,
                     documents |-> documents]
    /\ resolved' = <<>>

(***************************************************************************)
(* update_status.py                                                        *)
(***************************************************************************)

update_status ==
    /\ pc = "update_status"
    /\ documents' = update_many(documents, [status |-> "draft"], [status |-> "approved"])
    /\ res_modified_count' =
          modified_count(documents, [status |-> "draft"], [status |-> "approved"])
    /\ pc' = "done"
    /\ UNCHANGED <<users, macros, departments, job_positions, next_oid>>
    /\ UNCHANGED <<script, xl, runs, now, CREATED_BY_ID>>
    /\ UNCHANGED <<locals, history>>
    /\ UNCHANGED <<resolver, race>>

(***************************************************************************)
(* full_repopulate.py and clean_and_import_org.py: the wipe before the     *)
(* import.                                                                 *)
(***************************************************************************)

\* delete_many({}) on each of collections_to_clear, then import_data() is entered
full_repopulate ==
    /\ pc = "full_repopulate"
    /\ macros' = <<>>
    /\ documents' = <<>>
    /\ job_positions' = <<>>
    /\ departments' = <<>>
    /\ pc' = "import_data"
    /\ UNCHANGED <<users, next_oid>>
    /\ UNCHANGED <<script, xl, runs, now, CREATED_BY_ID>>
    /\ UNCHANGED <<locals, res_modified_count, history>>
    /\ UNCHANGED <<resolver, race>>

\* delete_many({}) on job_positions and departments, then import_data() is entered
clean_and_import ==
    /\ pc = "clean_and_import"
    /\ job_positions' = <<>>
    /\ departments' = <<>>
    /\ pc' = "org_import_data"
    /\ UNCHANGED <<users, macros, documents, next_oid>>
    /\ UNCHANGED <<script, xl, runs, now, CREATED_BY_ID>>
    /\ UNCHANGED <<locals, res_modified_count, history>>
    /\ UNCHANGED <<resolver, race>>


(***************************************************************************)
(* import_excel_data.py: import_data                                       *)
(***************************************************************************)

\* df.iloc[idx] with Python's indexing: a negative index counts from the end
ILoc(rows, idx) == IF idx < 0 THEN rows[Len(rows) + idx + 1] ELSE rows[idx + 1]

\* the `continue` left out: the sheet is read on with header_row_idx = -1
NeverSkipsSheet(idx) == FALSE

\* the sheet is left at `continue` when the scan found no header
SkipsSheet(idx) == idx = -1

\* doc_data of the process opened by a row
DocData(mid, process_ref, p_title, p_desc, names, created_by, t) ==
    [macro_id |-> mid,
     process_code |-> process_ref,
     title |-> p_title,
     description |-> p_desc,
     stakeholders |-> names,
     tasks |-> <<>>,
     status |-> "draft",
     version |-> "1.0",
     is_active |-> TRUE,
     created_by |-> created_by,
     created_at |-> t,
     updated_at |-> t,
     contributors |-> [authors |-> <<>>, verifiers |-> <<>>, validators |-> <<>>],
     metadata |-> [objectives |-> <<>>, implicated_actors |-> names,
                   management_rules |-> <<>>, terminology |-> <<>>,
                   change_history |-> <<>>]]

\* the accumulated tasks written on the process document of the open group
FlushTasks(docs, doc, tasks) ==
    IF doc # None
    THEN update_one_no_upsert(docs, [_id |-> doc._id], [tasks |-> tasks])
    ELSE docs

\* the process written with $setOnInsert: an existing record is left as it is
UpsertProcessIfAbsent(docs, p_title, mid, doc_data, oid) ==
    update_one_set_on_insert(docs, [title |-> p_title, macro_id |-> mid], doc_data, oid)

\* the upsert of a process document, matched by title and macro
UpsertProcess(docs, p_title, mid, doc_data, oid) ==
    update_one_set(docs, [title |-> p_title, macro_id |-> mid], doc_data, oid)

\* task_obj of a row with a tasks cell
TaskObj(doc, tasks, t_content) ==
    [code |-> doc.process_code \o "_T" \o ToString(Len(tasks) + 1),
     description |-> t_content,
     order |-> Len(tasks) + 1]

\* the entry of import_data: the file check, then the sheet loop
import_data ==
    /\ pc = "import_data"
    /\ IF ~excel_file.exists
       THEN /\ pc' = "done"
            /\ UNCHANGED locals
       ELSE /\ pc' = "sheet"
            /\ sheet_i' = 1
            /\ total_processes' = 0
            /\ total_tasks' = 0
            /\ UNCHANGED <<row_i, header_row_idx, col_map, macro_code, macro_id,
                           current_process_title, current_process_doc, current_tasks,
                           process_count, task_count>>
    /\ UNCHANGED <<store, script, xl, runs, now, CREATED_BY_ID>>
    /\ UNCHANGED <<res_modified_count, history>>
    /\ UNCHANGED <<resolver, race>>

\* the head of the sheet loop: the macro is upserted and the header row looked for
SheetHead ==
    /\ pc = "sheet"
    /\ sheet_i <= Len(excel_file.sheets)
    /\ LET sheet == excel_file.sheets[sheet_i]
           rows  == sheet.rows
       IN  IF rows = <<>>
           THEN \* df.iloc[0, 0] of an empty sheet raises IndexError
                /\ pc' = "crashed"
                /\ UNCHANGED <<macros, next_oid, locals>>
           ELSE LET m    == MacroOf(sheet)
                    q    == [code |-> m.code]
                    mcs  == update_one_set(macros, q,
                                MacroDoc(sheet, CREATED_BY_ID, now), next_oid)
                    scan == ScanHeader(rows, 0)
                IN  /\ macros' = mcs
                    /\ next_oid' = OidAfter(macros, q, next_oid)
                    /\ macro_code' = m.code
                    /\ macro_id' = find_one(mcs, q)._id
                    /\ header_row_idx' = scan.idx
                    /\ IF scan.raised # ""
                       THEN /\ pc' = "crashed"
                            /\ UNCHANGED <<sheet_i, row_i, col_map,
                                           current_process_title, current_process_doc,
                                           current_tasks, process_count, task_count>>
                       ELSE IF SkipsSheet(scan.idx)
                       THEN /\ pc' = "sheet"
                            /\ sheet_i' = sheet_i + 1
                            /\ UNCHANGED <<row_i, col_map,
                                           current_process_title, current_process_doc,
                                           current_tasks, process_count, task_count>>
                       ELSE /\ pc' = "rows"
                            /\ col_map' = ColMap(ILoc(rows, scan.idx))
                            /\ current_process_title' = NoTitle
                            /\ current_process_doc' = None
                            /\ current_tasks' = <<>>
                            /\ process_count' = 0
                            /\ task_count' = 0
                            /\ row_i' = scan.idx + 1
                            /\ UNCHANGED sheet_i
                    /\ UNCHANGED <<total_processes, total_tasks>>
    /\ UNCHANGED <<users, departments, job_positions, documents>>
    /\ UNCHANGED <<script, xl, runs, now, CREATED_BY_ID>>
    /\ UNCHANGED <<res_modified_count, resolver, race>>

import_sheet ==
    /\ SheetHead
    /\ sheet_pre' = [departments |-> departments, job_positions |-> job_positions,
                     documents |-> documents]
    /\ resolved' = <<>>
    /\ UNCHANGED <<run_pre, prev_run>>

\* one pass of the row loop
import_row ==
    /\ pc = "rows"
    /\ row_i < Len(excel_file.sheets[sheet_i].rows)
    /\ LET row       == excel_file.sheets[sheet_i].rows[row_i + 1]
           p_title   == CellOf(row, col_map.process_title)
           p_desc    == CellOf(row, col_map.process_desc)
           t_content == CellOf(row, col_map.tasks)
           d_content == CellOf(row, col_map.directions)
           opens     == p_title # "" /\ p_title # current_process_title
           flushed   == FlushTasks(documents, current_process_doc, current_tasks)
           res       == ResolveDirections([Store EXCEPT !.documents = flushed],
                                          d_content, now)
           process_ref == macro_code \o "_P" \o ToString(process_count + 1)
           doc_data  == DocData(macro_id, process_ref, p_title, p_desc,
                                res.stakeholders, CREATED_BY_ID, now)
           q         == [title |-> p_title, macro_id |-> macro_id]
           upserted  == UpsertProcess(flushed, p_title, macro_id, doc_data, res.S.next_oid)
           doc       == IF opens THEN find_one(upserted, q) ELSE current_process_doc
           tasks     == IF opens THEN <<>> ELSE current_tasks
       IN  IF t_content # "" /\ doc = None
           THEN \* current_process_doc['process_code'] of None raises TypeError
                /\ pc' = "crashed"
                /\ resolved' = <<>>
                /\ UNCHANGED <<store, locals>>
           ELSE /\ pc' = "rows"
                /\ row_i' = row_i + 1
                /\ IF opens
                   THEN /\ documents' = upserted
                        /\ departments' = res.S.departments
                        /\ job_positions' = res.S.job_positions
                        /\ next_oid' = OidAfter(flushed, q, res.S.next_oid)
                        /\ current_process_title' = p_title
                        /\ process_count' = process_count + 1
                        /\ total_processes' = total_processes + 1
                        /\ task_count' = IF current_process_doc # None
                                         THEN task_count + Len(current_tasks)
                                         ELSE task_count
                        /\ resolved' = res.resolved
                   ELSE /\ UNCHANGED <<documents, departments, job_positions, next_oid>>
                        /\ UNCHANGED <<current_process_title, process_count,
                                       total_processes, task_count>>
                        /\ resolved' = <<>>
                /\ current_process_doc' = doc
                /\ current_tasks' = IF t_content # ""
                                    THEN Append(tasks, TaskObj(doc, tasks, t_content))
                                    ELSE tasks
                /\ UNCHANGED <<users, macros>>
                /\ UNCHANGED <<sheet_i, header_row_idx, col_map, macro_code, macro_id,
                               total_tasks>>
    /\ UNCHANGED <<script, xl, runs, now, CREATED_BY_ID>>
    /\ UNCHANGED <<res_modified_count, run_pre, sheet_pre, prev_run>>
    /\ UNCHANGED <<resolver, race>>

\* after the last row: the tasks of the last group are saved
import_sheet_end ==
    /\ pc = "rows"
    /\ row_i >= Len(excel_file.sheets[sheet_i].rows)
    /\ documents' = FlushTasks(documents, current_process_doc, current_tasks)
    /\ IF current_process_doc # None
       THEN /\ task_count' = task_count + Len(current_tasks)
            /\ total_tasks' = total_tasks + task_count + Len(current_tasks)
       ELSE UNCHANGED <<task_count, total_tasks>>
    /\ sheet_i' = sheet_i + 1
    /\ pc' = "sheet"
    /\ resolved' = <<>>
    /\ UNCHANGED <<users, macros, departments, job_positions, next_oid>>
    /\ UNCHANGED <<script, xl, runs, now, CREATED_BY_ID>>
    /\ UNCHANGED <<row_i, header_row_idx, col_map, macro_code, macro_id,
                   current_process_title, current_process_doc, current_tasks,
                   process_count, total_processes>>
    /\ UNCHANGED <<res_modified_count, run_pre, sheet_pre, prev_run>>
    /\ UNCHANGED <<resolver, race>>

\* after the last sheet: the summary is printed and import_data returns
import_summary ==
    /\ pc = "sheet"
    /\ sheet_i > Len(excel_file.sheets)
    /\ pc' = "done"
    /\ UNCHANGED <<store, script, xl, runs, now, CREATED_BY_ID>>
    /\ UNCHANGED <<locals, res_modified_count, history>>
    /\ UNCHANGED <<resolver, race>>


(***************************************************************************)
(* clean_and_import_org.py: import_data                                    *)
(***************************************************************************)

\* col_map['directions'] of the cleanup importer: the last header cell naming the
\* directions, else index 4 when the sheet is wide enough, else -1 (`continue`)
OrgDirectionsCol(headers) ==
    LET hits == {c \in 1..Len(headers) :
                    LET val_str == Strip(Lower(Str(headers[c])))
                    IN  Contains(val_str, "concernées") \/ Contains(val_str, "directions")}
    IN  IF hits # {} THEN (CHOOSE c \in hits : \A j \in hits : j <= c) - 1
        ELSE IF Len(headers) > 4 THEN 4
        ELSE -1

\* the entry of the cleanup importer's import_data: the file check
org_import_data ==
    /\ pc = "org_import_data"
    /\ IF ~excel_file.exists
       THEN /\ pc' = "done"
            /\ UNCHANGED sheet_i
       ELSE /\ pc' = "org_sheet"
            /\ sheet_i' = 1
    /\ UNCHANGED <<row_i, header_row_idx, col_map, macro_code, macro_id,
                   current_process_title, current_process_doc, current_tasks,
                   process_count, task_count, total_processes, total_tasks>>
    /\ UNCHANGED <<store, script, xl, runs, now, CREATED_BY_ID>>
    /\ UNCHANGED <<res_modified_count, history>>
    /\ UNCHANGED <<resolver, race>>

\* the head of its sheet loop: the header row and the directions column
OrgSheetHead ==
    /\ pc = "org_sheet"
    /\ sheet_i <= Len(excel_file.sheets)
    /\ LET rows == excel_file.sheets[sheet_i].rows
           scan == ScanHeader(rows, 0)
       IN  /\ header_row_idx' = scan.idx
           /\ IF scan.raised # ""
              THEN /\ pc' = "crashed"
                   /\ UNCHANGED <<sheet_i, row_i, col_map>>
              ELSE IF SkipsSheet(scan.idx)
                      \/ OrgDirectionsCol(ILoc(rows, scan.idx)) = -1
              THEN /\ pc' = "org_sheet"
                   /\ sheet_i' = sheet_i + 1
                   /\ UNCHANGED <<row_i, col_map>>
              ELSE /\ pc' = "org_rows"
                   /\ col_map' = [directions |-> OrgDirectionsCol(ILoc(rows, scan.idx))]
                   /\ row_i' = scan.idx + 1
                   /\ UNCHANGED sheet_i
    /\ UNCHANGED <<macro_code, macro_id, current_process_title, current_process_doc,
                   current_tasks, process_count, task_count, total_processes,
                   total_tasks>>
    /\ UNCHANGED <<store, script, xl, runs, now, CREATED_BY_ID>>
    /\ UNCHANGED <<res_modified_count, resolver, race>>

org_sheet ==
    /\ OrgSheetHead
    /\ sheet_pre' = [departments |-> departments, job_positions |-> job_positions,
                     documents |-> documents]
    /\ resolved' = <<>>
    /\ UNCHANGED <<run_pre, prev_run>>

\* one pass of its row loop: the names of the directions cell are resolved
org_row ==
    /\ pc = "org_rows"
    /\ row_i < Len(excel_file.sheets[sheet_i].rows)
    /\ LET row       == excel_file.sheets[sheet_i].rows[row_i + 1]
           d_content == CellOf(row, col_map.directions)
           res       == ResolveDirections(Store, d_content, now)
       IN  /\ departments' = res.S.departments
           /\ job_positions' = res.S.job_positions
           /\ next_oid' = res.S.next_oid
           /\ resolved' = res.resolved
    /\ row_i' = row_i + 1
    /\ UNCHANGED <<users, macros, documents>>
    /\ UNCHANGED <<sheet_i, header_row_idx, col_map, macro_code, macro_id,
                   current_process_title, current_process_doc, current_tasks,
                   process_count, task_count, total_processes, total_tasks>>
    /\ UNCHANGED <<script, pc, xl, runs, now, CREATED_BY_ID>>
    /\ UNCHANGED <<res_modified_count, run_pre, sheet_pre, prev_run>>
    /\ UNCHANGED <<resolver, race>>

\* after the last row of a sheet
org_sheet_end ==
    /\ pc = "org_rows"
    /\ row_i >= Len(excel_file.sheets[sheet_i].rows)
    /\ sheet_i' = sheet_i + 1
    /\ pc' = "org_sheet"
    /\ resolved' = <<>>
    /\ UNCHANGED <<row_i, header_row_idx, col_map, macro_code, macro_id,
                   current_process_title, current_process_doc, current_tasks,
                   process_count, task_count, total_processes, total_tasks>>
    /\ UNCHANGED <<store, script, xl, runs, now, CREATED_BY_ID>>
    /\ UNCHANGED <<res_modified_count, run_pre, sheet_pre, prev_run>>
    /\ UNCHANGED <<resolver, race>>

\* after the last sheet
org_summary ==
    /\ pc = "org_sheet"
    /\ sheet_i > Len(excel_file.sheets)
    /\ pc' = "done"
    /\ UNCHANGED <<store, script, xl, runs, now, CREATED_BY_ID>>
    /\ UNCHANGED <<locals, res_modified_count, history>>
    /\ UNCHANGED <<resolver, race>>

(***************************************************************************)
(* The specification: scripts run one after the other.                     *)
(***************************************************************************)

Next ==
    \/ \E s \in Scripts, f \in Files : Launch(s, f)
    \/ update_status
    \/ full_repopulate
    \/ clean_and_import
    \/ import_data
    \/ import_sheet
    \/ import_row
    \/ import_sheet_end
    \/ import_summary
    \/ org_import_data
    \/ org_sheet
    \/ org_row
    \/ org_sheet_end
    \/ org_summary

Spec == Init /\ [][Next]_vars


(***************************************************************************)
(* Two processes against the same store.  Each statement that reads or     *)
(* writes the store in the resolver loop is a step of its own: nothing     *)
(* holds the store between the probe (find_one by code), the department    *)
(* upsert and the job position upsert.  The variables of the run and of    *)
(* import_data are those of the process taking steps; peer holds those of  *)
(* the other process.                                                      *)
(***************************************************************************)

\* the scripts that reach a resolver loop
ImportingScripts == {"import_excel_data", "full_repopulate", "clean_and_import_org"}

\* the script, position and locals of the process taking steps
Context ==
    [script |-> script, pc |-> pc, xl |-> xl,
     CREATED_BY_ID |-> CREATED_BY_ID,
     sheet_i |-> sheet_i, row_i |-> row_i, header_row_idx |-> header_row_idx,
     col_map |-> col_map, macro_code |-> macro_code, macro_id |-> macro_id,
     current_process_title |-> current_process_title,
     current_process_doc |-> current_process_doc,
     current_tasks |-> current_tasks,
     process_count |-> process_count, task_count |-> task_count,
     total_processes |-> total_processes, total_tasks |-> total_tasks,
     parts |-> parts, dir_name |-> dir_name, candidate_code |-> candidate_code,
     counter |-> counter, stakeholders |-> stakeholders]

\* script s is started in a process of its own, whatever the other process does
Start(s, f) ==
    /\ pc = "idle"
    /\ StartScript(s, f)
    /\ UNCHANGED history

\* the positions whose next step neither reads nor writes the store: the file
\* check, the header scan of the cleanup importer, the split of a directions cell
\* and the head of the loop over its parts
LocalSteps == {"import_data", "org_import_data", "org_sheet", "org_rows", "parts"}

\* the operating system lets the other process take the next steps.  A process
\* whose script has ended takes none, and the switch is taken where the next step
\* of the process left is one on the store: a step on locals alone gives the
\* same outcome before and after any step of the other process.
Yield ==
    /\ pc \notin LocalSteps
    /\ peer.pc \notin {"done", "crashed"}
    /\ peer # Context
    /\ peer' = Context
    /\ script' = peer.script
    /\ pc' = peer.pc
    /\ xl' = peer.xl
    /\ CREATED_BY_ID' = peer.CREATED_BY_ID
    /\ sheet_i' = peer.sheet_i
    /\ row_i' = peer.row_i
    /\ header_row_idx' = peer.header_row_idx
    /\ col_map' = peer.col_map
    /\ macro_code' = peer.macro_code
    /\ macro_id' = peer.macro_id
    /\ current_process_title' = peer.current_process_title
    /\ current_process_doc' = peer.current_process_doc
    /\ current_tasks' = peer.current_tasks
    /\ process_count' = peer.process_count
    /\ task_count' = peer.task_count
    /\ total_processes' = peer.total_processes
    /\ total_tasks' = peer.total_tasks
    /\ parts' = peer.parts
    /\ dir_name' = peer.dir_name
    /\ candidate_code' = peer.candidate_code
    /\ counter' = peer.counter
    /\ stakeholders' = peer.stakeholders
    /\ UNCHANGED <<store, runs, now, res_modified_count, history, overlap>>

\* the heads of the two sheet loops
sheet_head == SheetHead /\ UNCHANGED history

org_sheet_head == OrgSheetHead /\ UNCHANGED history

\* one pass of the row loop of import_excel_data.py up to the resolver loop: a row
\* that opens a group saves the tasks of the group before and splits its
\* directions cell; any other row is handled whole
row_head ==
    /\ pc = "rows"
    /\ row_i < Len(excel_file.sheets[sheet_i].rows)
    /\ LET row       == excel_file.sheets[sheet_i].rows[row_i + 1]
           p_title   == CellOf(row, col_map.process_title)
           t_content == CellOf(row, col_map.tasks)
           d_content == CellOf(row, col_map.directions)
           opens     == p_title # "" /\ p_title # current_process_title
       IN  IF opens
           THEN /\ documents' = FlushTasks(documents, current_process_doc, current_tasks)
                /\ task_count' = IF current_process_doc # None
                                 THEN task_count + Len(current_tasks)
                                 ELSE task_count
                /\ current_process_title' = p_title
                /\ process_count' = process_count + 1
                /\ total_processes' = total_processes + 1
                /\ current_tasks' = <<>>
                /\ stakeholders' = <<>>
                /\ parts' = IF d_content # "" THEN SplitParts(d_content) ELSE <<>>
                /\ pc' = "parts"
                /\ UNCHANGED <<row_i, current_process_doc>>
           ELSE IF t_content # "" /\ current_process_doc = None
           THEN \* current_process_doc['process_code'] of None raises TypeError
                /\ pc' = "crashed"
                /\ UNCHANGED <<documents, task_count, current_process_title,
                               process_count, total_processes, current_tasks,
                               stakeholders, parts, row_i, current_process_doc>>
           ELSE /\ current_tasks' =
                      IF t_content # ""
                      THEN Append(current_tasks,
                                  TaskObj(current_process_doc, current_tasks, t_content))
                      ELSE current_tasks
                /\ row_i' = row_i + 1
                /\ UNCHANGED <<documents, task_count, current_process_title,
                               process_count, total_processes, stakeholders, parts,
                               pc, current_process_doc>>
    /\ UNCHANGED <<users, macros, departments, job_positions, next_oid>>
    /\ UNCHANGED <<script, xl, runs, now, CREATED_BY_ID>>
    /\ UNCHANGED <<sheet_i, header_row_idx, col_map, macro_code, macro_id, total_tasks>>
    /\ UNCHANGED <<dir_name, candidate_code, counter>>
    /\ UNCHANGED <<res_modified_count, history, race>>

\* one pass of the row loop of clean_and_import_org.py up to the resolver loop
org_row_head ==
    /\ pc = "org_rows"
    /\ row_i < Len(excel_file.sheets[sheet_i].rows)
    /\ LET row       == excel_file.sheets[sheet_i].rows[row_i + 1]
           d_content == CellOf(row, col_map.directions)
       IN  parts' = IF d_content # "" THEN SplitParts(d_content) ELSE <<>>
    /\ pc' = "parts"
    /\ UNCHANGED <<store, script, xl, runs, now, CREATED_BY_ID, locals>>
    /\ UNCHANGED <<dir_name, candidate_code, counter, stakeholders>>
    /\ UNCHANGED <<res_modified_count, history, race>>

\* `for part in parts`: the next name and its base code, or the end of the loop
next_part ==
    /\ pc = "parts"
    /\ IF parts = <<>>
       THEN /\ IF script = "clean_and_import_org"
               THEN pc' = "org_rows" /\ row_i' = row_i + 1
               ELSE pc' = "upsert_process" /\ UNCHANGED row_i
            /\ UNCHANGED resolver
       ELSE /\ parts' = Tail(parts)
            /\ dir_name' = Strip(Head(parts))
            /\ IF Len(Strip(Head(parts))) > 1
               THEN /\ candidate_code' = BaseCode(Strip(Head(parts)))
                    /\ counter' = 1
                    /\ pc' = "probe"
               ELSE UNCHANGED <<candidate_code, counter, pc>>
            /\ UNCHANGED <<row_i, stakeholders>>
    /\ UNCHANGED <<store, script, xl, runs, now, CREATED_BY_ID>>
    /\ UNCHANGED <<sheet_i, header_row_idx, col_map, macro_code, macro_id,
                   current_process_title, current_process_doc, current_tasks,
                   process_count, task_count, total_processes, total_tasks>>
    /\ UNCHANGED <<res_modified_count, history, race>>

\* the probe accepts any candidate
ProbeAcceptsAny(existing, name) == TRUE

\* `if not existing or existing['name'] == dir_name: break`
ProbeAccepts(existing, name) == existing = None \/ existing.name = name

\* one pass of the while True loop: find_one by code, then break or the next
\* candidate
probe ==
    /\ pc = "probe"
    /\ LET existing == find_one(departments, [code |-> candidate_code])
       IN  IF ProbeAccepts(existing, dir_name)
           THEN /\ pc' = "upsert_department"
                /\ UNCHANGED <<candidate_code, counter>>
           ELSE /\ candidate_code' = BaseCode(dir_name) \o ToString(counter)
                /\ counter' = counter + 1
                /\ UNCHANGED pc
    /\ UNCHANGED <<store, script, xl, runs, now, CREATED_BY_ID, locals>>
    /\ UNCHANGED <<parts, dir_name, stakeholders>>
    /\ UNCHANGED <<res_modified_count, history, race>>

\* the department upsert with the code the probe left
upsert_department ==
    /\ pc = "upsert_department"
    /\ departments' = UpsertDepartment(departments, dir_name, candidate_code, now, next_oid)
    /\ next_oid' = OidAfter(departments, [name |-> dir_name], next_oid)
    /\ pc' = "upsert_job_position"
    /\ UNCHANGED <<users, macros, job_positions, documents>>
    /\ UNCHANGED <<script, xl, runs, now, CREATED_BY_ID, locals>>
    /\ UNCHANGED <<resolver, res_modified_count, history, race>>

\* the department read back by name and the job position upsert
upsert_job_position ==
    /\ pc = "upsert_job_position"
    /\ LET dept == find_one(departments, [name |-> dir_name])
       IN  IF dept = None
           THEN \* dept['_id'] of None raises TypeError
                /\ pc' = "crashed"
                /\ UNCHANGED <<job_positions, next_oid, stakeholders>>
           ELSE /\ job_positions' = UpsertJobPosition(job_positions, dir_name, dept,
                                                      candidate_code, now, next_oid)
                /\ next_oid' = OidAfter(job_positions,
                                        [title |-> dir_name, department_id |-> dept._id],
                                        next_oid)
                /\ stakeholders' = IF script = "clean_and_import_org" THEN stakeholders
                                   ELSE Append(stakeholders, dir_name)
                /\ pc' = "parts"
    /\ UNCHANGED <<users, macros, departments, documents>>
    /\ UNCHANGED <<script, xl, runs, now, CREATED_BY_ID, locals>>
    /\ UNCHANGED <<parts, dir_name, candidate_code, counter>>
    /\ UNCHANGED <<res_modified_count, history, race>>

\* the rest of the pass of a row that opened a group: the process upsert, the
\* document read back, and the tasks cell of the row
upsert_process ==
    /\ pc = "upsert_process"
    /\ LET row       == excel_file.sheets[sheet_i].rows[row_i + 1]
           p_title   == CellOf(row, col_map.process_title)
           p_desc    == CellOf(row, col_map.process_desc)
           t_content == CellOf(row, col_map.tasks)
           process_ref == macro_code \o "_P" \o ToString(process_count)
           doc_data  == DocData(macro_id, process_ref, p_title, p_desc,
                                stakeholders, CREATED_BY_ID, now)
           q         == [title |-> p_title, macro_id |-> macro_id]
           upserted  == UpsertProcess(documents, p_title, macro_id, doc_data, next_oid)
           doc       == find_one(upserted, q)
       IN  /\ documents' = upserted
           /\ next_oid' = OidAfter(documents, q, next_oid)
           /\ current_process_doc' = doc
           /\ current_tasks' = IF t_content # ""
                               THEN Append(current_tasks,
                                           TaskObj(doc, current_tasks, t_content))
                               ELSE current_tasks
    /\ row_i' = row_i + 1
    /\ pc' = "rows"
    /\ UNCHANGED <<users, macros, departments, job_positions>>
    /\ UNCHANGED <<script, xl, runs, now, CREATED_BY_ID>>
    /\ UNCHANGED <<sheet_i, header_row_idx, col_map, macro_code, macro_id,
                   current_process_title, process_count, task_count,
                   total_processes, total_tasks>>
    /\ UNCHANGED <<resolver, res_modified_count, history, race>>

RaceNext ==
    \/ \E s \in ImportingScripts, f \in RaceFiles : Start(s, f)
    \/ Yield
    \/ full_repopulate
    \/ clean_and_import
    \/ import_data
    \/ sheet_head
    \/ row_head
    \/ next_part
    \/ probe
    \/ upsert_department
    \/ upsert_job_position
    \/ upsert_process
    \/ import_sheet_end
    \/ import_summary
    \/ org_import_data
    \/ org_sheet_head
    \/ org_row_head
    \/ org_sheet_end
    \/ org_summary

\* the stores the two processes may find: an empty one, or one whose departments
\* were entered by hand
RaceInit == Init /\ documents = <<>>

RaceSpec == RaceInit /\ [][RaceNext]_vars


(***************************************************************************)
(* Properties.                                                             *)
(***************************************************************************)

AllSheets == UNION {{w[i] : i \in 1..Len(w)} : w \in Workbooks}

\* the sheets with no row among the scanned first rows that holds both words
Headerless ==
    {sh \in AllSheets :
        \A i \in 1..Len(sh.rows) : i <= ScanRows => ~IsHeaderRow(sh.rows[i])}

\* the run is one of the importer of import_excel_data.py or of the cleanup importer
ImporterRuns == script \in {"import_excel_data", "full_repopulate"}

OrgRuns == script = "clean_and_import_org"

\* the index of the sheet the sheet loop is handling or has handled last, 0 before
\* the first one
LastSheet ==
    IF pc \in {"rows", "org_rows", "crashed"} THEN sheet_i
    ELSE IF sheet_i >= 1 THEN sheet_i - 1 ELSE 0

\* C1: a sheet whose header row is not found leaves the departments, job_positions
\* and documents collections as they were when the sheet was started, in the
\* importer and in the cleanup importer.
C1_HeaderlessSheetCreatesNothing ==
    (LastSheet >= 1 /\ excel_file.sheets[LastSheet] \in Headerless)
        => /\ departments = sheet_pre.departments
           /\ job_positions = sheet_pre.job_positions
           /\ documents = sheet_pre.documents

\* C1 witness: the importer has skipped a headerless sheet of a workbook whose file
\* exists and stands before the next sheet, the store holding records
C1_Witness ==
    /\ ImporterRuns /\ pc = "sheet" /\ sheet_i = 2
    /\ excel_file.sheets[1] \in Headerless
    /\ documents # <<>> /\ departments # <<>>

\* C2: a headerless sheet does not abort the run of the importer, and the macro of
\* every later sheet of the workbook is upserted by the run.
C2_HeaderlessSheetNotFatal ==
    ImporterRuns =>
        \A k \in 1..Len(excel_file.sheets) :
            (excel_file.sheets[k] \in Headerless /\ LastSheet >= k)
                => /\ ~(pc = "crashed" /\ sheet_i = k)
                   /\ pc \in {"done", "crashed"} =>
                         \A j \in (k + 1)..Len(excel_file.sheets) :
                             \E i \in 1..Len(macros) :
                                 /\ macros[i].code = MacroOf(excel_file.sheets[j]).code
                                 /\ macros[i].updated_at = now

\* C7: the status updater leaves every record that was a draft approved and
\* otherwise as it was, every other record as it was, and reports the number of
\* records that were drafts.
C7_StatusUpdater ==
    (script = "update_status" /\ pc = "done") =>
        /\ Len(documents) = Len(run_pre.documents)
        /\ \A i \in 1..Len(documents) :
              IF run_pre.documents[i].status = "draft"
              THEN documents[i] = [run_pre.documents[i] EXCEPT !.status = "approved"]
              ELSE documents[i] = run_pre.documents[i]
        /\ res_modified_count =
              Cardinality({i \in 1..Len(run_pre.documents) :
                              run_pre.documents[i].status = "draft"})
        /\ macros = run_pre.macros
        /\ departments = run_pre.departments
        /\ job_positions = run_pre.job_positions

\* C7 witness: the updater has run on five drafts and three approved records: all
\* eight are approved and the count is five
C7_Witness ==
    /\ script = "update_status" /\ pc = "done"
    /\ Cardinality({i \in 1..Len(run_pre.documents) :
                       run_pre.documents[i].status = "draft"}) = 5
    /\ Cardinality({i \in 1..Len(run_pre.documents) :
                       run_pre.documents[i].status = "approved"}) = 3
    /\ Cardinality({i \in 1..Len(documents) : documents[i].status = "approved"}) = 8
    /\ res_modified_count = 5

\* C8: a run of a script that invokes an importer with the workbook file absent
\* ends with the macros, departments, job_positions and documents collections as
\* they were when it started.
C8_MissingFileNoMutation ==
    (pc = "done" /\ (ImporterRuns \/ OrgRuns) /\ ~excel_file.exists)
        => Collections = run_pre


\* the importer has imported the sheet before sheet_i and stands before the next
SheetImported ==
    ImporterRuns /\ pc = "sheet" /\ sheet_i >= 2 /\ header_row_idx >= 0

\* the rows of the sheet just imported, and its data rows (1-based indices)
ImportedRows == excel_file.sheets[sheet_i - 1].rows

DataRows == (header_row_idx + 2)..Len(ImportedRows)

TitleAt(i) == CellOf(ImportedRows[i], col_map.process_title)

TaskAt(i) == CellOf(ImportedRows[i], col_map.tasks)

\* the title of the group open after data row i: the last non-empty title cell
OpenTitleAfter(i) ==
    LET named == {j \in DataRows : j <= i /\ TitleAt(j) # ""}
    IN  IF named = {} THEN NoTitle
        ELSE TitleAt(CHOOSE j \in named : \A k \in named : k <= j)

\* the rows that open a group: a non-empty title cell that differs from the title
\* of the group open before the row
Openings == {i \in DataRows : TitleAt(i) # "" /\ TitleAt(i) # OpenTitleAfter(i - 1)}

\* the 1-based number of the group that row i opens
GroupNo(i) == Cardinality({j \in Openings : j <= i})

\* the last row of the group that row i opens
GroupEnd(i) ==
    LET later == {j \in Openings : j > i}
    IN  IF later = {} THEN Len(ImportedRows)
        ELSE (CHOOSE j \in later : \A k \in later : j <= k) - 1

RECURSIVE TasksOfRows(_, _, _, _)
\* one Task per row of i..last with a non-empty tasks cell, numbered from k
TasksOfRows(i, last, process_code, k) ==
    IF i > last THEN <<>>
    ELSE IF TaskAt(i) # ""
         THEN <<[code |-> process_code \o "_T" \o ToString(k),
                 description |-> TaskAt(i), order |-> k]>>
                  \o TasksOfRows(i + 1, last, process_code, k + 1)
         ELSE TasksOfRows(i + 1, last, process_code, k)

\* C3: after a sheet is imported, the Process record of every group of the sheet
\* holds one Task per row of the group with a non-empty tasks cell, in row order,
\* with orders 1..n and codes <process_code>_T<order>.
C3_TasksOfEveryGroup ==
    SheetImported =>
        \A i \in Openings :
            LET d == find_one(documents, [title |-> TitleAt(i), macro_id |-> macro_id])
            IN  /\ d # None
                /\ d.tasks = TasksOfRows(i, GroupEnd(i),
                                 macro_code \o "_P" \o ToString(GroupNo(i)), 1)

\* C10: after a sheet is imported into an empty store, the documents collection
\* holds one Process record per group of the sheet, with process codes
\* <macro_code>_P1 ... <macro_code>_Pn in row order.
C10_OneProcessPerGroup ==
    (/\ SheetImported /\ sheet_i = 2
     /\ sheet_pre.documents = <<>> /\ sheet_pre.departments = <<>>
     /\ sheet_pre.job_positions = <<>> /\ Len(macros) = 1)
        => /\ Len(documents) = Cardinality(Openings)
           /\ \A i \in Openings :
                 /\ documents[GroupNo(i)].title = TitleAt(i)
                 /\ documents[GroupNo(i)].process_code =
                       macro_code \o "_P" \o ToString(GroupNo(i))


\* the run of the importer has ended, and the run before it was a run of the
\* importer on the same workbook
SecondImport ==
    /\ pc \in {"done", "crashed"}
    /\ runs >= 2
    /\ script = "import_excel_data"
    /\ prev_run.script = "import_excel_data"
    /\ excel_file.exists
    /\ prev_run.xl = xl

\* no two records of the collection agree on all the fields of keys
NoDuplicates(col, keys) ==
    \A i, j \in 1..Len(col) :
        (i # j) => \E f \in keys : col[i][f] # col[j][f]

\* C4: a second run of the importer on the same workbook leaves the Department and
\* JobPosition records of the first run, without duplicates, and the same Process
\* identity keys.
C4_SecondRunIdempotentOnIdentity ==
    SecondImport =>
        /\ departments = prev_run.departments
        /\ job_positions = prev_run.job_positions
        /\ DocKeys(documents) = prev_run.keys
        /\ NoDuplicates(departments, {"name"})
        /\ NoDuplicates(job_positions, {"title", "department_id"})

\* C4 witness: the second import of a workbook with several departments has ended
C4_Witness ==
    /\ SecondImport /\ pc = "done"
    /\ Len(departments) >= 4 /\ Len(job_positions) >= 4 /\ Len(documents) >= 4

\* C5: in every state of the scripts run one after the other, no two Department
\* records of different names hold the same code.
C5_DepartmentCodesUnique ==
    \A i, j \in 1..Len(departments) :
        departments[i].name # departments[j].name
            => departments[i].code # departments[j].code

\* C5 witness: after a cleanup import and a further run, departments whose names
\* derive the same base code are stored
C5_Witness ==
    /\ runs = 2 /\ pc = "done" /\ prev_run.script = "clean_and_import_org"
    /\ \E i, j \in 1..Len(departments) :
          /\ i # j
          /\ BaseCode(departments[i].name) = BaseCode(departments[j].name)

\* the candidates of a base code in the order they are probed
Candidate(base_code, n) == IF n = 0 THEN base_code ELSE base_code \o ToString(n)

\* no department of another name holds the code among the held (code, name) pairs
FreeFor(code, name, held) == \A h \in held : h[1] = code => h[2] = name

\* the first candidate of the name's base code that no other name holds
FirstFree(name, held) ==
    LET n == CHOOSE k \in 0..Cardinality(held) :
                 /\ FreeFor(Candidate(BaseCode(name), k), name, held)
                 /\ \A m \in 0..(k - 1) : ~FreeFor(Candidate(BaseCode(name), m), name, held)
    IN  Candidate(BaseCode(name), n)

\* C6: every name the resolver resolves gets the first of base, base1, base2, ...
\* that no department of another name holds (the base code itself when it is free
\* or held by the same name), and a department it creates is stored with that code.
C6_ResolverCodes ==
    \A r \in 1..Len(resolved) :
        LET e == resolved[r]
            d == find_one(departments, [name |-> e.name])
        IN  /\ e.code = FirstFree(e.name, e.held)
            /\ (\E h \in e.held : h[1] = BaseCode(e.name) /\ h[2] = e.name)
                  => e.code = BaseCode(e.name)
            /\ d # None
            /\ (\A h \in e.held : h[2] # e.name) => d.code = e.code

\* C6 witness: in one row, on a store that holds them already, a name is resolved to
\* its base code and a second name of the same base code to the base code with 1
C6_Witness ==
    \E a, b \in 1..Len(resolved) :
        /\ a < b
        /\ resolved[a].name # resolved[b].name
        /\ BaseCode(resolved[a].name) = BaseCode(resolved[b].name)
        /\ resolved[a].code = BaseCode(resolved[a].name)
        /\ <<resolved[a].code, resolved[a].name>> \in resolved[a].held
        /\ resolved[b].code = BaseCode(resolved[b].name) \o "1"
        /\ find_one(departments, [name |-> resolved[b].name]).code = resolved[b].code


\* the fields of doc_data
BuiltFields ==
    {"macro_id", "process_code", "title", "description", "stakeholders", "tasks",
     "status", "version", "is_active", "created_by", "created_at", "updated_at",
     "contributors", "metadata"}

\* the step is a row of the importer that opens a group whose (title, macro_id) is
\* the key of a stored Process record
UpsertsStoredProcess ==
    /\ pc = "rows" /\ pc' = "rows"
    /\ process_count' = process_count + 1
    /\ <<current_process_title', macro_id>> \in DocKeys(documents)

\* the stored record of that key before the step, and after it
StoredBefore == find_one(documents, [title |-> current_process_title', macro_id |-> macro_id])

StoredAfter == find_one(documents', [title |-> current_process_title', macro_id |-> macro_id])

\* doc_data of the step, from the row and the names it resolved
BuiltByStep ==
    DocData(macro_id, macro_code \o "_P" \o ToString(process_count'),
            current_process_title',
            CellOf(excel_file.sheets[sheet_i].rows[row_i + 1], col_map.process_desc),
            [r \in 1..Len(resolved') |-> resolved'[r].name],
            CREATED_BY_ID, now)

\* the Department and JobPosition records stored before the step are as they were
ReferenceDataKept ==
    /\ Len(departments') >= Len(departments)
    /\ \A i \in 1..Len(departments) : departments'[i] = departments[i]
    /\ Len(job_positions') >= Len(job_positions)
    /\ \A i \in 1..Len(job_positions) : job_positions'[i] = job_positions[i]

\* C9: the upsert of a stored Process leaves a record of exactly the fields the run
\* builds (and the _id it had), with the run's values, and the stored Department
\* and JobPosition records as they were.
C9_FullReplace ==
    [][UpsertsStoredProcess =>
          /\ DOMAIN StoredAfter = BuiltFields \cup {"_id"}
          /\ StoredAfter._id = StoredBefore._id
          /\ \A f \in BuiltFields : StoredAfter[f] = BuiltByStep[f]
          /\ ReferenceDataKept]_vars

\* C9 as amended: the upsert of a stored Process overwrites every field the run
\* builds with the run's value (status "draft", tasks emptied for the run's tasks),
\* keeps the _id and every other field of the stored record with its value, and
\* leaves the stored Department and JobPosition records as they were.
C9_BuiltFieldsOverwritten ==
    [][UpsertsStoredProcess =>
          /\ DOMAIN StoredAfter = DOMAIN StoredBefore \cup BuiltFields
          /\ \A f \in BuiltFields : StoredAfter[f] = BuiltByStep[f]
          /\ \A f \in DOMAIN StoredBefore \ BuiltFields : StoredAfter[f] = StoredBefore[f]
          /\ StoredAfter.status = "draft" /\ StoredAfter.tasks = <<>>
          /\ StoredAfter.created_at = now
          /\ ReferenceDataKept]_vars

\* C9 witness: a record that was approved and carries a field the importer does not
\* build has been upserted by this run: it is a draft of this run, the field kept
C9_Witness ==
    /\ ImporterRuns /\ pc = "rows"
    /\ \E i \in 1..Len(documents) :
          /\ "approved_at" \in DOMAIN documents[i]
          /\ documents[i].status = "draft"
          /\ documents[i].created_at = now
          /\ \E j \in 1..Len(run_pre.documents) :
                /\ run_pre.documents[j]._id = documents[i]._id
                /\ run_pre.documents[j].status = "approved"
                /\ departments # <<>>

\* two Department records of different names hold the same code
SharedCode ==
    \E i, j \in 1..Len(departments) :
        /\ departments[i].name # departments[j].name
        /\ departments[i].code = departments[j].code

\* C11: the probe and the department upsert are separate steps on the store.  With
\* two processes taking steps in any order against it, two Department records of
\* different names come to hold the same code only in behaviours where a script was
\* started while another was still running: when the scripts run one after the
\* other no such state is reached.
C11_SharedCodeOnlyWhenInterleaved == SharedCode => overlap

\* C11 witness: two runs of import_excel_data.py both stand right after their
\* department upsert, each with the same candidate code for a name of its own, and
\* the departments of both names are stored with that code: each probe found the
\* code free before either upsert
C11_Witness ==
    /\ overlap
    /\ script = "import_excel_data" /\ peer.script = "import_excel_data"
    /\ pc = "upsert_job_position" /\ peer.pc = "upsert_job_position"
    /\ dir_name # peer.dir_name
    /\ candidate_code = peer.candidate_code
    /\ \E i, j \in 1..Len(departments) :
          /\ departments[i].name = dir_name
          /\ departments[j].name = peer.dir_name
          /\ departments[i].code = candidate_code
          /\ departments[j].code = candidate_code

\* the data rows of a sheet whose tasks cell is non-empty while every process-title
\* cell down to the row is empty (1-based indices)
OrphanRows(sh) ==
    LET scan == ScanHeader(sh.rows, 0)
    IN  IF scan.raised # "" \/ scan.idx = -1 THEN {}
        ELSE LET cm == ColMap(ILoc(sh.rows, scan.idx))
             IN  {r \in (scan.idx + 2)..Len(sh.rows) :
                     /\ CellOf(sh.rows[r], cm.tasks) # ""
                     /\ \A j \in (scan.idx + 2)..r :
                           CellOf(sh.rows[j], cm.process_title) = ""}

\* the data rows of a sheet whose tasks cell is non-empty inside an open group
TaskRows(sh) ==
    LET scan == ScanHeader(sh.rows, 0)
    IN  IF scan.raised # "" \/ scan.idx = -1 THEN {}
        ELSE LET cm == ColMap(ILoc(sh.rows, scan.idx))
             IN  {r \in (scan.idx + 2)..Len(sh.rows) :
                     CellOf(sh.rows[r], cm.tasks) # ""} \ OrphanRows(sh)

\* the Tasks the documents of the macro of a sheet hold
TasksStoredFor(sh) ==
    LET m == find_one(macros, [code |-> MacroOf(sh).code])
    IN  IF m = None THEN {}
        ELSE {<<i, t>> \in (1..Len(documents)) \X (1..Len(sh.rows)) :
                 /\ documents[i].macro_id = m._id
                 /\ t <= Len(documents[i].tasks)}

\* the sheet loop of the run is past sheet k
SheetDone(k) == LastSheet > k \/ (LastSheet = k /\ pc \in {"sheet", "done"})

\* C12: a data row whose tasks cell is non-empty while no group is open does not
\* abort the importer: the run does not end at the sheet of that row, the rest of
\* the sheet is imported with no Task for that row, and the macro of every later
\* sheet of the workbook is upserted by the run.
C12_OrphanTasksRowNotFatal ==
    ImporterRuns =>
        \A k \in 1..Len(excel_file.sheets) :
            (OrphanRows(excel_file.sheets[k]) # {} /\ LastSheet >= k)
                => /\ ~(pc = "crashed" /\ sheet_i = k)
                   /\ SheetDone(k) =>
                         Cardinality(TasksStoredFor(excel_file.sheets[k]))
                             = Cardinality(TaskRows(excel_file.sheets[k]))
                   /\ pc \in {"done", "crashed"} =>
                         \A j \in (k + 1)..Len(excel_file.sheets) :
                             \E i \in 1..Len(macros) :
                                 /\ macros[i].code = MacroOf(excel_file.sheets[j]).code
                                 /\ macros[i].updated_at = now

=============================================================================
